---------------------------- MODULE Spec2Model ----------------------------
(***************************************************************************)
(* A model of the ai-dev-team repository: the task router                  *)
(* (src/workflows/task_router.py), the webhook server and its background   *)
(* units (src/webhook_server.py), the two workflows (src/workflows) with   *)
(* the Linear tools they call (src/tools/linear_tools.py), and the         *)
(* sequential crew pipeline (src/crew.py).                                 *)
(*                                                                         *)
(* Strings.  TLA+ strings are ASCII, so the Chinese literals of the source *)
(* are written in pinyin:                                                  *)
(*     前端 qianduan    后端 houduan    数据库 shujuku    审查 shencha         *)
(*     规划完成 guihuawancheng           已完成 yiwancheng                   *)
(* A title is a sequence of tokens (a bracketed prefix such as "[AI]" or a *)
(* plain word); str.lower() acts token by token (Lower below), startswith  *)
(* looks at the first token and `in` at every token.                       *)
(***************************************************************************)
EXTENDS Integers, Sequences, FiniteSets, TLC

VARIABLES
    issue_data,     \* RouterSpec: the payload handed to TaskRouter.route
    decision,       \* RouterSpec: what route returned ("unset" before the call)
    exec_type,      \* RouterSpec: what _get_execution_type returned ("unset" before)
    disabled,       \* DISABLE_WEBHOOK is "true"
    secret,         \* WEBHOOK_SECRET is set
    team_states,    \* the workflow-state names of the Linear team
    tracker,        \* the Linear issues, by id (1, 2, ...)
    units,          \* the background threads running process_task, by start order
    traffic,        \* the endpoints that requests are sent to
    response,       \* the answer to the last HTTP request, with that request
    run_state,      \* YPlatformDevCrew.run: idle, running, returned, raised
    task_status,    \* each task of the crew: pending, running, done, failed
    task_output,    \* each task's output, "none" before it has one
    task_context,   \* the tasks whose outputs each task was given
    run_result      \* what the caller of YPlatformDevCrew.run gets from it

routerVars == <<issue_data, decision, exec_type>>
sysVars == <<disabled, secret, team_states, traffic, tracker, units, response>>
pipeVars == <<run_state, task_status, task_output, task_context, run_result>>
vars == <<routerVars, sysVars, pipeVars>>

-----------------------------------------------------------------------------
(* Bounds of the model *)

\* The longest list of labels a payload carries
MaxLabels == 2
\* The most background units started in one run
MaxUnits == 2
\* The most sub-issues created in one run of the server
MaxCreated == 1

-----------------------------------------------------------------------------
(* Strings and their lower-casing *)

\* str.lower(): the mixed-case strings of the model and their lower-case form;
\* every other string of the model is already lower-case or has no case.
Lower(s) ==
    CASE s = "[AI]" -> "[ai]"
      [] s = "[Ai]" -> "[ai]"
      [] s = "[Frontend]" -> "[frontend]"
      [] s = "[Backend]" -> "[backend]"
      [] s = "[Database]" -> "[database]"
      [] s = "[Review]" -> "[review]"
      [] s = "AI-Generated" -> "ai-generated"
      [] s = "AI-Plan" -> "ai-plan"
      [] s = "Frontend" -> "frontend"
      [] s = "Backend" -> "backend"
      [] s = "DB" -> "db"
      [] s = "Review" -> "review"
      [] s = "Todo" -> "todo"
      [] s = "In Progress" -> "in progress"
      [] s = "Done" -> "done"
      [] s = "DONE" -> "done"
      [] s = "Planned" -> "planned"
      [] OTHER -> s

\* title.lower()
LowerTitle(title) == [i \in 1..Len(title) |-> Lower(title[i])]

\* title.startswith(prefix)
StartsWith(title, prefix) == Len(title) >= 1 /\ title[1] = prefix

\* `x in seq`, for a marker in a title and for a name in a list of labels
In(x, seq) == \E i \in 1..Len(seq) : seq[i] = x

-----------------------------------------------------------------------------
(* TaskRouter *)

\* A payload is a record that has the fields the JSON object has; its field
\* `null`, when it has one, names the fields and sub-fields whose value is
\* the JSON null ("title", "state", "state.name", "labels.nodes").
IsNull(issue, field) == "null" \in DOMAIN issue /\ field \in issue.null

\* issue_data.get("title", "")
PayloadTitle(issue) == IF "title" \in DOMAIN issue THEN issue.title ELSE <<>>

\* issue_data.get("labels", {}): a missing field is the empty dict, which has
\* no "nodes"
PayloadLabels(issue) ==
    IF "labels" \in DOMAIN issue THEN issue.labels
    ELSE [shape |-> "dict", items |-> <<>>]

\* issue_data.get("id", ""), as the workflows read it; 0 is the empty id
PayloadId(issue) == IF "id" \in DOMAIN issue THEN issue.id ELSE 0

\* issue_data.get("state", {}).get("name", "")
PayloadState(issue) == IF "state" \in DOMAIN issue THEN issue.state ELSE ""

\* Faulty variant of LabelName: a label given as a string is not lower-cased.
LabelName_string_as_is(l) == IF l.kind = "str" THEN l.name ELSE Lower(l.name)

\* l.get("name", "").lower() if isinstance(l, dict) else str(l).lower():
\* an element is either an object {name: n} or the string n, and both give
\* the lower-case n.
LabelName(l) == Lower(l.name)

\* The labels of a payload as a list of lower-case names: a dict gives its
\* "nodes", a list gives itself, anything else gives [].
ParseLabels(labels_raw) ==
    IF labels_raw.shape \in {"dict", "list"}
    THEN [i \in 1..Len(labels_raw.items) |-> LabelName(labels_raw.items[i])]
    ELSE <<>>

\* Faulty variant of _get_execution_type: the labels are gone through in
\* their order and the first one that names a type decides.
get_execution_type_by_label_order(title, labels) ==
    LET TypeOf(l) ==
            CASE l \in {"frontend", "qianduan"} -> "frontend"
              [] l \in {"backend", "houduan"} -> "backend"
              [] l \in {"database", "shujuku", "db"} -> "database"
              [] l \in {"review", "shencha"} -> "review"
              [] OTHER -> "None"
        ks == {i \in 1..Len(labels) : TypeOf(labels[i]) # "None"}
    IN  IF In("[qianduan]", title) \/ In("[frontend]", title) THEN "frontend"
        ELSE IF In("[houduan]", title) \/ In("[backend]", title) THEN "backend"
        ELSE IF In("[shujuku]", title) \/ In("[database]", title) THEN "database"
        ELSE IF In("[shencha]", title) \/ In("[review]", title) THEN "review"
        ELSE IF ks # {} THEN TypeOf(labels[CHOOSE k \in ks : \A j \in ks : k <= j])
        ELSE "None"

\* Faulty variant of _get_execution_type: backend is looked for before frontend.
get_execution_type_backend_first(title, labels) ==
    IF \/ In("[houduan]", title) \/ In("[backend]", title)
       \/ In("backend", labels) \/ In("houduan", labels)
    THEN "backend"
    ELSE IF \/ In("[qianduan]", title) \/ In("[frontend]", title)
            \/ In("frontend", labels) \/ In("qianduan", labels)
    THEN "frontend"
    ELSE IF \/ In("[shujuku]", title) \/ In("[database]", title)
            \/ In("database", labels) \/ In("shujuku", labels)
            \/ In("db", labels)
    THEN "database"
    ELSE IF \/ In("[shencha]", title) \/ In("[review]", title)
            \/ In("review", labels) \/ In("shencha", labels)
    THEN "review"
    ELSE "None"

\* TaskRouter._get_execution_type(title, labels): the first of frontend,
\* backend, database, review that has a marker in the title or the labels.
_get_execution_type(title, labels) ==
    IF \/ In("[qianduan]", title) \/ In("[frontend]", title)
       \/ In("frontend", labels) \/ In("qianduan", labels)
    THEN "frontend"
    ELSE IF \/ In("[houduan]", title) \/ In("[backend]", title)
            \/ In("backend", labels) \/ In("houduan", labels)
    THEN "backend"
    ELSE IF \/ In("[shujuku]", title) \/ In("[database]", title)
            \/ In("database", labels) \/ In("shujuku", labels)
            \/ In("db", labels)
    THEN "database"
    ELSE IF \/ In("[shencha]", title) \/ In("[review]", title)
            \/ In("review", labels) \/ In("shencha", labels)
    THEN "review"
    ELSE "None"

\* Faulty variant of TerminalStates: "done" is forgotten.
TerminalStates_no_done == {"guihuawancheng", "planned"}

\* The state names rule 2 of route skips
TerminalStates == {"guihuawancheng", "planned", "done"}

\* Faulty variant of route: the "[AI]" title rule comes before the
\* "ai-generated" rule.
route_title_first(issue) ==
    LET title  == LowerTitle(PayloadTitle(issue))
        labels == ParseLabels(PayloadLabels(issue))
        state  == PayloadState(issue)
    IN  IF StartsWith(title, "[ai]")
        THEN "pm_mode"
        ELSE IF In("ai-generated", labels)
        THEN _get_execution_type(title, labels)
        ELSE IF Lower(state) \in TerminalStates
        THEN "None"
        ELSE IF In("ai-plan", labels) \/ In("ai-planning", labels)
        THEN "pm_mode"
        ELSE _get_execution_type(title, labels)

\* Faulty variant of route: the terminal-state rule comes before the
\* "ai-generated" rule.
route_terminal_first(issue) ==
    LET title  == LowerTitle(PayloadTitle(issue))
        labels == ParseLabels(PayloadLabels(issue))
        state  == PayloadState(issue)
    IN  IF Lower(state) \in TerminalStates
        THEN "None"
        ELSE IF In("ai-generated", labels)
        THEN _get_execution_type(title, labels)
        ELSE IF StartsWith(title, "[ai]")
        THEN "pm_mode"
        ELSE IF In("ai-plan", labels) \/ In("ai-planning", labels)
        THEN "pm_mode"
        ELSE _get_execution_type(title, labels)

\* Faulty variant of route: the execution types are looked for before the
\* two PM rules.
route_exec_before_pm(issue) ==
    LET title  == LowerTitle(PayloadTitle(issue))
        labels == ParseLabels(PayloadLabels(issue))
        state  == PayloadState(issue)
        execution_type == _get_execution_type(title, labels)
    IN  IF In("ai-generated", labels)
        THEN execution_type
        ELSE IF Lower(state) \in TerminalStates
        THEN "None"
        ELSE IF execution_type # "None"
        THEN execution_type
        ELSE IF StartsWith(title, "[ai]")
        THEN "pm_mode"
        ELSE IF In("ai-plan", labels) \/ In("ai-planning", labels)
        THEN "pm_mode"
        ELSE "None"

\* Faulty variant of route: the state name is compared as it is, not
\* lower-cased.
route_state_as_is(issue) ==
    LET title  == LowerTitle(PayloadTitle(issue))
        labels == ParseLabels(PayloadLabels(issue))
        state  == PayloadState(issue)
    IN  IF In("ai-generated", labels)
        THEN _get_execution_type(title, labels)
        ELSE IF state \in TerminalStates
        THEN "None"
        ELSE IF StartsWith(title, "[ai]")
        THEN "pm_mode"
        ELSE IF In("ai-plan", labels) \/ In("ai-planning", labels)
        THEN "pm_mode"
        ELSE _get_execution_type(title, labels)

\* Faulty variant of route: an item that no rule matches is planned.
route_default_pm(issue) ==
    LET title  == LowerTitle(PayloadTitle(issue))
        labels == ParseLabels(PayloadLabels(issue))
        state  == PayloadState(issue)
    IN  IF In("ai-generated", labels)
        THEN _get_execution_type(title, labels)
        ELSE IF Lower(state) \in TerminalStates
        THEN "None"
        ELSE IF StartsWith(title, "[ai]")
        THEN "pm_mode"
        ELSE IF In("ai-plan", labels) \/ In("ai-planning", labels)
        THEN "pm_mode"
        ELSE IF _get_execution_type(title, labels) = "None"
        THEN "pm_mode"
        ELSE _get_execution_type(title, labels)

\* TaskRouter.route, lines 21-32: reading the payload raises.  None has no
\* lower() (title: null, {name: null} among the labels), no get()
\* (state: null), and cannot be iterated (labels: {nodes: null}).
ReadRaises(issue) ==
    \/ IsNull(issue, "title")
    \/ IsNull(issue, "state")
    \/ PayloadLabels(issue).shape = "dict" /\ IsNull(issue, "labels.nodes")
    \/ /\ PayloadLabels(issue).shape \in {"dict", "list"}
       /\ \E i \in 1..Len(PayloadLabels(issue).items) :
                PayloadLabels(issue).items[i].kind = "obj_null"

\* TaskRouter.route(issue_data): "pm_mode", an execution type, "None", or
\* "raise" when it ends with an exception
route(issue) ==
    LET title  == LowerTitle(PayloadTitle(issue))
        labels == ParseLabels(PayloadLabels(issue))
        state  == PayloadState(issue)
    IN  IF ReadRaises(issue)
        THEN "raise"
        ELSE IF In("ai-generated", labels)
        THEN _get_execution_type(title, labels)
        ELSE IF IsNull(issue, "state.name")
        THEN "raise"
        ELSE IF Lower(state) \in TerminalStates
        THEN "None"
        ELSE IF StartsWith(title, "[ai]")
        THEN "pm_mode"
        ELSE IF In("ai-plan", labels) \/ In("ai-planning", labels)
        THEN "pm_mode"
        ELSE _get_execution_type(title, labels)

-----------------------------------------------------------------------------
(* The server before any request, and the router when it is not under test *)

NoResponse == [endpoint |-> "none"]

SysIdle ==
    /\ disabled = FALSE
    /\ secret = FALSE
    /\ team_states = {}
    /\ traffic = {}
    /\ tracker = <<>>
    /\ units = <<>>
    /\ response = NoResponse

\* The tasks of the crew, in the order _create_tasks returns them
TaskList ==
    <<"analyze_task", "database_task", "backend_task", "frontend_task", "review_task">>

Tasks == {TaskList[i] : i \in 1..Len(TaskList)}

\* run has handed nothing to its caller
NoResult == [kind |-> "none"]

PipeIdle ==
    /\ run_state = "idle"
    /\ task_status = [t \in Tasks |-> "pending"]
    /\ task_output = [t \in Tasks |-> "none"]
    /\ task_context = [t \in Tasks |-> {}]
    /\ run_result = NoResult

RouterIdle ==
    /\ issue_data = [title |-> <<>>, labels |-> [shape |-> "list", items |-> <<>>],
                     state |-> ""]
    /\ decision = "unset"
    /\ exec_type = "unset"

-----------------------------------------------------------------------------
(* The payloads the router is checked on *)

\* Sequences over S of length at most n
SeqUpTo(S, n) == UNION {[1..k -> S] : k \in 0..n}

\* Titles: none, plain, the "[AI]" prefix in three letter cases and away
\* from the start, each domain prefix, and combinations of them.
Titles ==
    {<<>>, <<"fix">>,
     <<"[AI]", "fix">>, <<"[ai]", "fix">>, <<"[Ai]", "fix">>, <<"fix", "[AI]">>,
     <<"[qianduan]", "fix">>, <<"[Frontend]", "fix">>,
     <<"[houduan]", "fix">>, <<"[backend]", "fix">>,
     <<"[shujuku]", "fix">>, <<"[Database]", "fix">>,
     <<"[shencha]", "fix">>, <<"[review]", "fix">>,
     <<"[AI]", "[frontend]">>, <<"[ai]", "[houduan]">>,
     <<"[backend]", "[qianduan]">>, <<"[Review]", "[shujuku]">>,
     <<"fix", "[shencha]">>}

LabelNames ==
    {"ai-generated", "AI-Generated", "ai-plan", "ai-planning",
     "qianduan", "Backend", "db", "review", "bug"}

\* "" is the name route reads when the payload has no state
StateNames == {"", "Todo", "Done", "guihuawancheng", "Planned"}

\* labels: {nodes: [{name}]}, [{name}], [name]
LabelShapes ==
    {[shape |-> "dict", kind |-> "obj"], [shape |-> "list", kind |-> "obj"],
     [shape |-> "list", kind |-> "str"]}

\* The names ns as the labels of a payload, in shape sh
Labels(sh, ns) ==
    [shape |-> sh.shape,
     items |-> [i \in 1..Len(ns) |-> [kind |-> sh.kind, name |-> ns[i]]]]

RawLabels ==
    {Labels(sh, ns) : sh \in LabelShapes, ns \in SeqUpTo(LabelNames, MaxLabels)}

Payloads ==
    [title : Titles, labels : RawLabels, state : StateNames]

RouterInit ==
    /\ issue_data \in Payloads
    /\ decision = "unset"
    /\ exec_type = "unset"
    /\ SysIdle
    /\ PipeIdle

\* One call of TaskRouter.route
Classify ==
    /\ decision = "unset" /\ exec_type = "unset"
    /\ decision' = route(issue_data)
    /\ UNCHANGED <<issue_data, exec_type, sysVars, pipeVars>>

\* One call of TaskRouter._get_execution_type, on the lower-case title and
\* the parsed labels route hands to it
ResolveType ==
    /\ decision = "unset" /\ exec_type = "unset"
    /\ exec_type' = _get_execution_type(LowerTitle(issue_data.title),
                                        ParseLabels(issue_data.labels))
    /\ UNCHANGED <<issue_data, decision, sysVars, pipeVars>>

RouterNext == Classify \/ ResolveType

RouterSpec == RouterInit /\ [][RouterNext]_vars

-----------------------------------------------------------------------------
(* The payloads with fields that are absent, null or empty *)

\* title: no such field, null, "", "[AI] fix", "[frontend] fix"
TitleCases == {"absent", "null", "empty", "ai", "frontend"}

\* labels: no such field, null, {}, {nodes: null}, ["ai-generated"],
\* [{name: null}], ["Backend"]
LabelCases ==
    {"absent", "null", "dict_empty", "dict_nodes_null", "list_ai_generated",
     "list_null_name", "list_backend"}

\* state: no such field, null, {name: null}, {name: ""}, {name: "Done"}
StateCases == {"absent", "null", "name_null", "empty", "done"}

\* The payload with the title, labels and state of cases t, l and st
CasePayload(t, l, st) ==
    LET fields == {"null"} \cup (IF t = "absent" THEN {} ELSE {"title"})
                          \cup (IF l = "absent" THEN {} ELSE {"labels"})
                          \cup (IF st = "absent" THEN {} ELSE {"state"})
        title  == CASE t = "ai" -> <<"[AI]", "fix">>
                    [] t = "frontend" -> <<"[frontend]", "fix">>
                    [] OTHER -> <<>>
        labels == CASE l = "null" -> [shape |-> "none", items |-> <<>>]
                    [] l = "dict_empty" -> [shape |-> "dict", items |-> <<>>]
                    [] l = "dict_nodes_null" -> [shape |-> "dict", items |-> <<>>]
                    [] l = "list_ai_generated" ->
                          [shape |-> "list",
                           items |-> <<[kind |-> "str", name |-> "ai-generated"]>>]
                    [] l = "list_null_name" ->
                          [shape |-> "list",
                           items |-> <<[kind |-> "obj_null", name |-> ""]>>]
                    [] OTHER ->
                          [shape |-> "list",
                           items |-> <<[kind |-> "str", name |-> "Backend"]>>]
        state  == IF st = "done" THEN "Done" ELSE ""
        nulls  == (IF t = "null" THEN {"title"} ELSE {})
                    \cup (IF l = "dict_nodes_null" THEN {"labels.nodes"} ELSE {})
                    \cup (IF st = "null" THEN {"state"} ELSE {})
                    \cup (IF st = "name_null" THEN {"state.name"} ELSE {})
    IN  [f \in fields |->
            CASE f = "title" -> title
              [] f = "labels" -> labels
              [] f = "state" -> state
              [] f = "null" -> nulls]

CasePayloads ==
    {CasePayload(t, l, st) : t \in TitleCases, l \in LabelCases, st \in StateCases}

PayloadInit ==
    /\ issue_data \in CasePayloads
    /\ decision = "unset"
    /\ exec_type = "unset"
    /\ SysIdle
    /\ PipeIdle

PayloadNext == Classify

PayloadSpec == PayloadInit /\ [][PayloadNext]_vars

-----------------------------------------------------------------------------
(* The Linear workspace and the Linear tools *)

\* The state a newly created issue is in
DefaultState == "Todo"

\* The deployments: the switch DISABLE_WEBHOOK, whether WEBHOOK_SECRET is
\* set, the team's workflow-state names, which either hold the names the
\* workflows write or hold neither "Done" nor "guihuawancheng", and the
\* endpoints in use: the webhook registered in Linear, the webhook registered
\* in GitHub, or the manual trigger; the disabled deployment gets requests
\* at all three.
Deployments ==
    {[disabled |-> FALSE, secret |-> FALSE,
      team_states |-> {"Todo", "Done", "guihuawancheng"}, traffic |-> {"linear"}],
     [disabled |-> FALSE, secret |-> TRUE,
      team_states |-> {"Todo", "yiwancheng"}, traffic |-> {"linear"}],
     [disabled |-> FALSE, secret |-> FALSE,
      team_states |-> {"Todo", "Done", "guihuawancheng"}, traffic |-> {"github"}],
     [disabled |-> FALSE, secret |-> FALSE,
      team_states |-> {"Todo", "Done", "guihuawancheng"}, traffic |-> {"trigger"}],
     [disabled |-> TRUE, secret |-> TRUE,
      team_states |-> {"Todo", "Done", "guihuawancheng"},
      traffic |-> {"linear", "github", "trigger"}]}

\* UpdateIssueStatusTool._run, lines 181-185: the team's state whose name is
\* `status` up to letter case, "" when it has none
MatchingState(status) ==
    IF \E n \in team_states : Lower(n) = Lower(status)
    THEN CHOOSE n \in team_states : Lower(n) = Lower(status)
    ELSE ""

\* UpdateIssueStatusTool._run(issue_id, status): what the call comes to.  It
\* returns a string in every case and raises nothing: "error" when the API
\* cannot be reached or refuses the id, "not_found" when the team has no
\* such state, "updated" otherwise.
UpdateResult(issue_id, status, api_ok) ==
    IF ~api_ok THEN "error"
    ELSE IF MatchingState(status) = "" THEN "not_found"
    ELSE IF issue_id \notin DOMAIN tracker THEN "error"
    ELSE "updated"

\* The issues after UpdateIssueStatusTool._run(issue_id, status), called by
\* workflow `by`
TrackerAfterUpdate(issue_id, status, api_ok, by) ==
    IF UpdateResult(issue_id, status, api_ok) = "updated"
    THEN [tracker EXCEPT ![issue_id].state = MatchingState(status),
                         ![issue_id].moved = by]
    ELSE tracker

\* CreateIssueTool._run, lines 81-87: the input of the issueCreate mutation
\* holds teamId, title and description; the `labels` argument is not used.
CreateIssueInput(title, labels) == [title |-> title, labels |-> <<>>]

\* The issue CreateIssueTool._run(title, description, labels) creates;
\* `asked` remembers the labels the caller passed.
CreatedIssue(title, labels) ==
    [title  |-> CreateIssueInput(title, labels).title,
     labels |-> CreateIssueInput(title, labels).labels,
     state  |-> DefaultState,
     origin |-> "created",
     moved  |-> "none",
     asked  |-> labels]

-----------------------------------------------------------------------------
(* The webhook server *)

\* The issues Linear holds when the server starts
SeedIssues ==
    {[title |-> <<"[AI]", "fix">>, labels |-> <<>>, state |-> "Todo"],
     [title |-> <<"[AI]", "fix">>, labels |-> <<>>, state |-> "Done"],
     [title |-> <<"[ai]", "fix">>, labels |-> <<>>, state |-> "Todo"],
     [title |-> <<"fix">>, labels |-> <<"frontend">>, state |-> "Todo"],
     [title |-> <<"fix">>, labels |-> <<"ai-task", "backend">>, state |-> "Todo"],
     [title |-> <<"[AI]", "[houduan]">>, labels |-> <<"ai-generated">>, state |-> "Todo"]}

\* The one issue of the deployments that do not hang on Linear's webhook
FirstSeed == [title |-> <<"[AI]", "fix">>, labels |-> <<>>, state |-> "Todo"]

\* The issues Linear may hold when deployment d starts: the team of the
\* deployment with a secret holds every seed but the one to be planned
Seeds(d) ==
    IF d.traffic # {"linear"} THEN {FirstSeed}
    ELSE IF d.secret THEN SeedIssues \ {FirstSeed}
    ELSE SeedIssues

\* Linear sends the labels of an issue as {nodes: [{name}]}
WebhookShape == [shape |-> "dict", kind |-> "obj"]

\* The "data" of a webhook event for issue i
IssuePayload(i) ==
    [id     |-> i,
     title  |-> tracker[i].title,
     labels |-> Labels(WebhookShape, tracker[i].labels),
     state  |-> tracker[i].state]

\* The (type, action) pairs of the events
EventKinds ==
    {[type |-> "Issue", action |-> "create"], [type |-> "Issue", action |-> "update"],
     [type |-> "Issue", action |-> "remove"], [type |-> "Comment", action |-> "create"]}

\* Faulty variant of verify_signature: every signature is taken as valid.
verify_signature_accepts_all(signature_ok) == TRUE

\* verify_signature(payload, signature); signature_ok says that the header
\* Linear-Signature is "sha256=" followed by the hex HMAC-SHA256 of the body
\* under WEBHOOK_SECRET; a missing header is the empty string and not ok.
verify_signature(signature_ok) == IF ~secret THEN TRUE ELSE signature_ok

\* The signatures of the requests: with no secret set there is none to match
Signatures == IF secret THEN BOOLEAN ELSE {FALSE}

\* linear_webhook, lines 128-138: the label names, not lower-cased
WebhookLabels(labels_raw) ==
    IF labels_raw.shape \in {"dict", "list"}
    THEN [i \in 1..Len(labels_raw.items) |-> labels_raw.items[i].name]
    ELSE <<>>

\* linear_webhook, lines 143-147
should_process(issue) ==
    In("ai-task", WebhookLabels(issue.labels)) \/ StartsWith(issue.title, "[AI]")

\* Thread(target=process_task, args=(issue,)) before its first step; `ran`
\* lists the workflows process_task has called with the type it passed, and
\* `after` remembers which workflow, if any, had moved the issue when the
\* event was sent.
NewUnit(issue, source) ==
    [issue         |-> issue,
     source        |-> source,
     pc            |-> "start",
     workflow_type |-> "unset",
     ran           |-> <<>>,
     calls         |-> 0,
     created       |-> 0,
     writes        |-> <<>>,
     outcome       |-> "none",
     message       |-> "",
     capability    |-> "none",
     after         |-> IF PayloadId(issue) \in DOMAIN tracker
                       THEN tracker[PayloadId(issue)].moved
                       ELSE "none"]

\* POST /webhook/linear with an event of kind `kind` for issue i
linear_webhook(i, kind, signature_ok) ==
    LET issue   == IssuePayload(i)
        request == [signature_ok |-> signature_ok, type |-> kind.type,
                    action |-> kind.action, data |-> issue]
        answer(status, unit) ==
            [endpoint |-> "linear", status |-> status, unit |-> unit,
             request |-> request]
    IN  /\ "linear" \in traffic
        /\ i \in DOMAIN tracker
        /\ IF disabled
           THEN response' = answer("disabled", 0) /\ UNCHANGED units
           ELSE IF ~verify_signature(signature_ok)
           THEN response' = answer("unauthorized", 0) /\ UNCHANGED units
           ELSE IF kind.type = "Issue" /\ kind.action \in {"create", "update"}
           THEN IF should_process(issue)
                THEN /\ Len(units) < MaxUnits
                     /\ units' = Append(units, NewUnit(issue, "linear"))
                     /\ response' = answer("accepted", Len(units) + 1)
                ELSE response' = answer("skipped", 0) /\ UNCHANGED units
           ELSE response' = answer("ignored", 0) /\ UNCHANGED units
        /\ UNCHANGED <<disabled, secret, team_states, traffic, tracker, routerVars, pipeVars>>

\* The events GitHub sends, by their X-GitHub-Event header
GithubEvents == {"issue_comment", "push"}

\* The titles of the pull requests commented on
GithubTitles == {<<"[backend]", "fix">>}

\* github_webhook, lines 200-203: the task made of a comment; its title is
\* the title of the pull request after "PR fankui:"
GithubTask(title) == [title |-> <<"PR-fankui:">> \o title, description |-> <<"/ai">>]

\* POST /webhook/github with event `event` on a pull request titled
\* `title`; `mentions` says that the comment holds "@ai-dev" or "/ai"
github_webhook(event, mentions, title) ==
    LET request == [event |-> event, mentions |-> mentions, title |-> title]
        answer(status, unit) ==
            [endpoint |-> "github", status |-> status, unit |-> unit,
             request |-> request]
    IN  /\ "github" \in traffic
        /\ IF disabled
           THEN response' = answer("disabled", 0) /\ UNCHANGED units
           ELSE IF event = "issue_comment" /\ mentions
           THEN /\ Len(units) < MaxUnits
                /\ units' = Append(units, NewUnit(GithubTask(title), "github"))
                /\ response' = answer("accepted", Len(units) + 1)
           ELSE response' = answer("ignored", 0) /\ UNCHANGED units
        /\ UNCHANGED <<disabled, secret, team_states, traffic, tracker, routerVars, pipeVars>>

\* The requirements sent to /trigger; <<>> is the empty or missing one
Requirements == {<<>>, <<"[AI]", "fix">>, <<"[frontend]", "fix">>}

\* manual_trigger, line 234: the task made of a requirement
TriggerTask(requirement) == [title |-> requirement, description |-> requirement]

\* Faulty variant of manual_trigger: the request is taken only when no unit
\* is at work.
manual_trigger_waits(requirement) ==
    LET request == [requirement |-> requirement]
        answer(status, unit) ==
            [endpoint |-> "trigger", status |-> status, unit |-> unit,
             request |-> request]
    IN  /\ "trigger" \in traffic
        /\ IF disabled
           THEN response' = answer("disabled", 0) /\ UNCHANGED units
           ELSE IF requirement = <<>>
           THEN response' = answer("missing_requirement", 0) /\ UNCHANGED units
           ELSE /\ Len(units) < MaxUnits
                /\ \A u \in DOMAIN units : units[u].pc = "done"
                /\ units' = Append(units, NewUnit(TriggerTask(requirement), "trigger"))
                /\ response' = answer("accepted", Len(units) + 1)
        /\ UNCHANGED <<disabled, secret, team_states, traffic, tracker, routerVars, pipeVars>>

\* Faulty variant of manual_trigger: the switch DISABLE_WEBHOOK is not
\* looked at.
manual_trigger_without_switch(requirement) ==
    LET request == [requirement |-> requirement]
        answer(status, unit) ==
            [endpoint |-> "trigger", status |-> status, unit |-> unit,
             request |-> request]
    IN  /\ "trigger" \in traffic
        /\ IF requirement = <<>>
           THEN response' = answer("missing_requirement", 0) /\ UNCHANGED units
           ELSE /\ Len(units) < MaxUnits
                /\ units' = Append(units, NewUnit(TriggerTask(requirement), "trigger"))
                /\ response' = answer("accepted", Len(units) + 1)
        /\ UNCHANGED <<disabled, secret, team_states, traffic, tracker, routerVars, pipeVars>>

\* POST /trigger with {"requirement": requirement}
manual_trigger(requirement) ==
    LET request == [requirement |-> requirement]
        answer(status, unit) ==
            [endpoint |-> "trigger", status |-> status, unit |-> unit,
             request |-> request]
    IN  /\ "trigger" \in traffic
        /\ IF disabled
           THEN response' = answer("disabled", 0) /\ UNCHANGED units
           ELSE IF requirement = <<>>
           THEN response' = answer("missing_requirement", 0) /\ UNCHANGED units
           ELSE /\ Len(units) < MaxUnits
                /\ units' = Append(units, NewUnit(TriggerTask(requirement), "trigger"))
                /\ response' = answer("accepted", Len(units) + 1)
        /\ UNCHANGED <<disabled, secret, team_states, traffic, tracker, routerVars, pipeVars>>

-----------------------------------------------------------------------------
(* process_task and the two workflows, step by step *)

ExecutionTypes == {"frontend", "backend", "database", "review"}

\* process_task, line 56: pm_workflow.run(issue_data)
PMRun == [workflow |-> "pm", task_type |-> "none"]

\* process_task, line 63: execution_workflow.run(workflow_type, issue_data)
ExecRun(task_type) == [workflow |-> "exec", task_type |-> task_type]

\* Faulty variant of TaskRoute: an item that route skips is planned all the
\* same.
TaskRoute_skip_runs_pm(u) ==
    LET workflow_type == route(units[u].issue)
    IN  /\ units[u].pc = "start"
        /\ units' = [units EXCEPT ![u] =
              IF workflow_type \in {"frontend", "backend", "database", "review"}
              THEN [@ EXCEPT !.workflow_type = workflow_type, !.pc = "exec_run", !.calls = 1,
                             !.ran = Append(@, ExecRun(workflow_type))]
              ELSE [@ EXCEPT !.workflow_type = workflow_type, !.pc = "pm_run", !.calls = 1,
                             !.ran = Append(@, PMRun)]]
        /\ UNCHANGED <<disabled, secret, team_states, traffic, tracker, response, routerVars, pipeVars>>

\* Faulty variant of TaskRoute: every execution is run as a backend task.
TaskRoute_always_backend(u) ==
    LET workflow_type == route(units[u].issue)
    IN  /\ units[u].pc = "start"
        /\ units' = [units EXCEPT ![u] =
              IF workflow_type = "pm_mode"
              THEN [@ EXCEPT !.workflow_type = workflow_type, !.pc = "pm_run", !.calls = 1,
                             !.ran = Append(@, PMRun)]
              ELSE IF workflow_type \in {"frontend", "backend", "database", "review"}
              THEN [@ EXCEPT !.workflow_type = workflow_type, !.pc = "exec_run", !.calls = 1,
                             !.ran = Append(@, ExecRun("backend"))]
              ELSE [@ EXCEPT !.workflow_type = workflow_type, !.pc = "done",
                             !.outcome = IF workflow_type = "raise" THEN "exception"
                                         ELSE "skipped"]]
        /\ UNCHANGED <<disabled, secret, team_states, traffic, tracker, response, routerVars, pipeVars>>

\* Faulty variant of TaskRoute: a unit waits while another unit for the same
\* issue is inside a workflow.
TaskRoute_exclusive(u) ==
    LET workflow_type == route(units[u].issue)
    IN  /\ units[u].pc = "start"
        /\ \A v \in DOMAIN units :
                (v # u /\ units[v].issue = units[u].issue) =>
                    units[v].pc \in {"start", "done"}
        /\ units' = [units EXCEPT ![u] =
              IF workflow_type = "pm_mode"
              THEN [@ EXCEPT !.workflow_type = workflow_type, !.pc = "pm_run", !.calls = 1,
                             !.ran = Append(@, PMRun)]
              ELSE IF workflow_type \in {"frontend", "backend", "database", "review"}
              THEN [@ EXCEPT !.workflow_type = workflow_type, !.pc = "exec_run", !.calls = 1,
                             !.ran = Append(@, ExecRun(workflow_type))]
              ELSE [@ EXCEPT !.workflow_type = workflow_type, !.pc = "done",
                             !.outcome = IF workflow_type = "raise" THEN "exception"
                                         ELSE "skipped"]]
        /\ UNCHANGED <<disabled, secret, team_states, traffic, tracker, response, routerVars, pipeVars>>

\* process_task, lines 46-70: the unit routes its issue and enters the
\* workflow, which calls the capability (run_pm_mode or run_single_agent).
TaskRoute(u) ==
    LET workflow_type == route(units[u].issue)
    IN  /\ units[u].pc = "start"
        /\ units' = [units EXCEPT ![u] =
              IF workflow_type = "pm_mode"
              THEN [@ EXCEPT !.workflow_type = workflow_type, !.pc = "pm_run", !.calls = 1,
                             !.ran = Append(@, PMRun)]
              ELSE IF workflow_type \in ExecutionTypes
              THEN [@ EXCEPT !.workflow_type = workflow_type, !.pc = "exec_run", !.calls = 1,
                             !.ran = Append(@, ExecRun(workflow_type))]
              ELSE [@ EXCEPT !.workflow_type = workflow_type, !.pc = "done",
                             !.outcome = IF workflow_type = "raise" THEN "exception"
                                         ELSE "skipped"]]
        /\ UNCHANGED <<disabled, secret, team_states, traffic, tracker, response, routerVars, pipeVars>>

\* The types the PM agent plans sub-issues for, with the title prefix and
\* the labels it asks for
PlannedTypes == {"frontend"}
PlannedTitle(type) ==
    IF type = "frontend" THEN <<"[qianduan]", "fix">> ELSE <<"[houduan]", "fix">>
PlannedLabels(type) ==
    IF type = "frontend" THEN <<"qianduan", "ai-generated">>
    ELSE <<"houduan", "ai-generated">>

\* The titles the PM agent may give a sub-issue of type `type`: the title is
\* the agent's own text, in the format asked for or with the "[AI]" marker
\* of the parent in front
PlannedTitles(type) == {PlannedTitle(type), <<"[AI]">> \o PlannedTitle(type)}

\* Inside run_pm_mode the PM agent calls its create_issue tool with a title
\* of its own.
PMCreateTitled(u, type, title) ==
    /\ units[u].pc = "pm_run"
    /\ Len(tracker) < 1 + MaxCreated
    /\ tracker' = Append(tracker, CreatedIssue(title, PlannedLabels(type)))
    /\ units' = [units EXCEPT ![u].created = @ + 1]
    /\ UNCHANGED <<disabled, secret, team_states, traffic, response, routerVars, pipeVars>>

\* Inside run_pm_mode the PM agent calls its create_issue tool with a title
\* in the format asked for.
PMCreateIssue(u, type) == PMCreateTitled(u, type, PlannedTitle(type))

\* The exceptions a capability raises: the API's rate limit, or another
Errors == {"rate_limit", "other"}

\* PMWorkflow.run, line 59: run_pm_mode returns.
PMReturn(u) ==
    /\ units[u].pc = "pm_run"
    /\ units' = [units EXCEPT ![u].pc = "pm_update", ![u].capability = "returned"]
    /\ UNCHANGED <<disabled, secret, team_states, traffic, tracker, response, routerVars, pipeVars>>

\* Faulty variant of PMOnException: the parent is reported as planned.
PMOnException_reports_success(unit, error) ==
    [unit EXCEPT !.pc = "done", !.outcome = "success"]

\* PMWorkflow.run, lines 94-103: the handler of the workflow returns the
\* error Outcome with the message of the exception; no status is written.
PMOnException(unit, error) ==
    [unit EXCEPT !.pc = "done", !.outcome = "error", !.message = error]

\* PMWorkflow.run, line 59: run_pm_mode raises `error`.
PMRaise(u, error) ==
    /\ units[u].pc = "pm_run"
    /\ units' = [units EXCEPT ![u] = PMOnException([@ EXCEPT !.capability = error], error)]
    /\ UNCHANGED <<disabled, secret, team_states, traffic, tracker, response, routerVars, pipeVars>>

\* Faulty variant of OutcomeAfterUpdates: a failed status write fails the
\* workflow.
OutcomeAfterUpdates_strict(results) ==
    IF results[Len(results)] = "updated" THEN "success" ELSE "error"

\* PMWorkflow.run, lines 89-92, and ExecutionWorkflow.run, lines 78-82: the
\* Outcome after the status updates, whose results are `results`
OutcomeAfterUpdates(results) == "success"

\* What a call self.linear_tools.update_issue_status(issue_id, status) of a
\* workflow comes to: the call of the tool object raises, or it runs
\* UpdateIssueStatusTool._run with the Linear API failing or answering.
ToolCalls == {"raises", "api_error", "api_ok"}

\* The result of one such call
CallResult(issue_id, status, call) ==
    IF call = "raises" THEN "raised" ELSE UpdateResult(issue_id, status, call = "api_ok")

\* The issues after one such call by workflow `by`
TrackerAfterCall(issue_id, status, call, by) ==
    IF call = "raises" THEN tracker
    ELSE TrackerAfterUpdate(issue_id, status, call = "api_ok", by)

\* Faulty variant of PMUpdateStatus: an update that did not go through is
\* made once more.
PMUpdateStatus_again(u, call) ==
    LET id == PayloadId(units[u].issue)
        status == "guihuawancheng"
        write == [id |-> id, status |-> status, result |-> CallResult(id, status, call)]
    IN  /\ units[u].pc = "pm_update"
        /\ tracker' = TrackerAfterCall(id, status, call, "pm")
        /\ units' = [units EXCEPT
              ![u].writes = IF write.result = "updated" THEN Append(@, write)
                            ELSE @ \o <<write, write>>,
              ![u].pc = "done",
              ![u].outcome = "success"]
        /\ UNCHANGED <<disabled, secret, team_states, traffic, response, routerVars, pipeVars>>

\* PMWorkflow.run, lines 67-92: the parent is moved to "guihuawancheng" and
\* the workflow returns success whatever the update came to.
PMUpdateStatus(u, call) ==
    LET id == PayloadId(units[u].issue)
        status == "guihuawancheng"
    IN  /\ units[u].pc = "pm_update"
        /\ tracker' = TrackerAfterCall(id, status, call, "pm")
        /\ units' = [units EXCEPT
              ![u].writes = Append(@, [id |-> id, status |-> status,
                                       result |-> CallResult(id, status, call)]),
              ![u].pc = "done",
              ![u].outcome = OutcomeAfterUpdates(
                                <<CallResult(id, status, call)>>)]
        /\ UNCHANGED <<disabled, secret, team_states, traffic, response, routerVars, pipeVars>>

\* ExecutionWorkflow.run, line 61: run_single_agent returns.
ExecReturn(u) ==
    /\ units[u].pc = "exec_run"
    /\ units' = [units EXCEPT ![u].pc = "exec_update", ![u].capability = "returned"]
    /\ UNCHANGED <<disabled, secret, team_states, traffic, tracker, response, routerVars, pipeVars>>

\* Faulty variant of ExecOnException: the handler marks the issue "Done".
ExecOnException_marks_done(unit, error) ==
    [unit EXCEPT !.pc = "done", !.outcome = "error", !.message = error,
                 !.writes = Append(@, [id |-> PayloadId(unit.issue), status |-> "Done",
                                       result |-> "error"])]

\* Faulty variant of ExecOnException: after a rate-limit error the
\* capability is invoked once more.
ExecOnException_retries(unit, error) ==
    IF error = "rate_limit" /\ unit.calls < 2
    THEN [unit EXCEPT !.pc = "exec_run", !.calls = @ + 1]
    ELSE [unit EXCEPT !.pc = "done", !.outcome = "error", !.message = error]

\* Faulty variant of ExecOnException: the exception is swallowed and the
\* workflow goes on to report success.
ExecOnException_swallows(unit, error) ==
    [unit EXCEPT !.pc = "done", !.outcome = "success"]

\* ExecutionWorkflow.run, lines 84-97: the handler of the workflow returns
\* the error Outcome with the message of the exception.
ExecOnException(unit, error) ==
    [unit EXCEPT !.pc = "done", !.outcome = "error", !.message = error]

\* ExecutionWorkflow.run, line 61: run_single_agent raises `error`.
ExecRaise(u, error) ==
    /\ units[u].pc = "exec_run"
    /\ units' = [units EXCEPT ![u] = ExecOnException([@ EXCEPT !.capability = error], error)]
    /\ UNCHANGED <<disabled, secret, team_states, traffic, tracker, response, routerVars, pipeVars>>

\* Faulty variant of FallbackStatus: the execution workflow falls back to the
\* state of a planned issue.
FallbackStatus_planned == "guihuawancheng"

\* The name ExecutionWorkflow.run falls back to
FallbackStatus == "yiwancheng"

\* ExecutionWorkflow.run, lines 66-82: the issue is moved to "Done"; when
\* that call raises, the call is made once more with the fallback name, and
\* the workflow returns success whatever the calls came to.
ExecUpdateStatus(u, call, fallback) ==
    LET id == PayloadId(units[u].issue)
        status == "Done"
        first == [id |-> id, status |-> status, result |-> CallResult(id, status, call)]
        second == [id |-> id, status |-> FallbackStatus,
                   result |-> CallResult(id, FallbackStatus, fallback)]
    IN  /\ units[u].pc = "exec_update"
        /\ tracker' = IF call = "raises"
                      THEN TrackerAfterCall(id, FallbackStatus, fallback, "exec")
                      ELSE TrackerAfterCall(id, status, call, "exec")
        /\ units' = [units EXCEPT
              ![u].writes = IF call = "raises" THEN @ \o <<first, second>>
                            ELSE Append(@, first),
              ![u].pc = "done",
              ![u].outcome = OutcomeAfterUpdates(
                                IF call = "raises" THEN <<first.result, second.result>>
                                ELSE <<first.result>>)]
        /\ UNCHANGED <<disabled, secret, team_states, traffic, response, routerVars, pipeVars>>

-----------------------------------------------------------------------------
(* The server as a whole *)

Init ==
    /\ RouterIdle
    /\ PipeIdle
    /\ \E d \in Deployments :
            /\ disabled = d.disabled
            /\ secret = d.secret
            /\ team_states = d.team_states
            /\ traffic = d.traffic
            /\ tracker \in {<<[title |-> s.title, labels |-> s.labels, state |-> s.state,
                               origin |-> "seed", moved |-> "none", asked |-> <<>>]>> :
                                s \in Seeds(d)}
    /\ units = <<>>
    /\ response = NoResponse

Next ==
    \/ \E i \in DOMAIN tracker, kind \in EventKinds, signature_ok \in Signatures :
            linear_webhook(i, kind, signature_ok)
    \/ \E event \in GithubEvents, mentions \in BOOLEAN, title \in GithubTitles :
            github_webhook(event, mentions, title)
    \/ \E requirement \in Requirements : manual_trigger(requirement)
    \/ \E u \in DOMAIN units : TaskRoute(u)
    \/ \E u \in DOMAIN units, type \in PlannedTypes : PMCreateIssue(u, type)
    \/ \E u \in DOMAIN units : PMReturn(u)
    \/ \E u \in DOMAIN units, error \in Errors : PMRaise(u, error)
    \/ \E u \in DOMAIN units, call \in ToolCalls : PMUpdateStatus(u, call)
    \/ \E u \in DOMAIN units : ExecReturn(u)
    \/ \E u \in DOMAIN units, error \in Errors : ExecRaise(u, error)
    \/ \E u \in DOMAIN units, call \in ToolCalls, fallback \in ToolCalls :
            ExecUpdateStatus(u, call, fallback)

Spec == Init /\ [][Next]_vars

-----------------------------------------------------------------------------
(* The server with a PM agent that titles its sub-issues freely *)

\* The deployment on Linear's webhook without a secret, holding the issue to
\* be planned
ReplanInit ==
    /\ RouterIdle
    /\ PipeIdle
    /\ disabled = FALSE
    /\ secret = FALSE
    /\ team_states = {"Todo", "Done", "guihuawancheng"}
    /\ traffic = {"linear"}
    /\ tracker = <<[title |-> FirstSeed.title, labels |-> FirstSeed.labels,
                    state |-> FirstSeed.state, origin |-> "seed", moved |-> "none",
                    asked |-> <<>>]>>
    /\ units = <<>>
    /\ response = NoResponse

\* The steps of the server there: the sub-issues carry no labels, so that no
\* event is routed to an execution.
ReplanNext ==
    \/ \E i \in DOMAIN tracker, kind \in EventKinds, signature_ok \in Signatures :
            linear_webhook(i, kind, signature_ok)
    \/ \E u \in DOMAIN units : TaskRoute(u)
    \/ \E u \in DOMAIN units, type \in PlannedTypes :
            \E title \in PlannedTitles(type) : PMCreateTitled(u, type, title)
    \/ \E u \in DOMAIN units : PMReturn(u)
    \/ \E u \in DOMAIN units, error \in Errors : PMRaise(u, error)
    \/ \E u \in DOMAIN units, call \in ToolCalls : PMUpdateStatus(u, call)

ReplanSpec == ReplanInit /\ [][ReplanNext]_vars

-----------------------------------------------------------------------------
(* YPlatformDevCrew.run: the five tasks under Process.sequential *)

\* Faulty variant of TaskContext: database_task is given the output of
\* backend_task, which runs after it.
TaskContext_database_needs_backend(t) ==
    CASE t = "analyze_task"  -> {}
      [] t = "database_task" -> {"analyze_task", "backend_task"}
      [] t = "backend_task"  -> {"analyze_task", "database_task"}
      [] t = "frontend_task" -> {"analyze_task", "backend_task"}
      [] t = "review_task"   -> {"database_task", "backend_task", "frontend_task"}

\* Faulty variant of TaskContext: backend_task is not given the database
\* design.
TaskContext_backend_without_database(t) ==
    CASE t = "analyze_task"  -> {}
      [] t = "database_task" -> {"analyze_task"}
      [] t = "backend_task"  -> {"analyze_task"}
      [] t = "frontend_task" -> {"analyze_task", "backend_task"}
      [] t = "review_task"   -> {"database_task", "backend_task", "frontend_task"}

\* The context=[...] of each Task in _create_tasks
TaskContext(t) ==
    CASE t = "analyze_task"  -> {}
      [] t = "database_task" -> {"analyze_task"}
      [] t = "backend_task"  -> {"analyze_task", "database_task"}
      [] t = "frontend_task" -> {"analyze_task", "backend_task"}
      [] t = "review_task"   -> {"database_task", "backend_task", "frontend_task"}

\* Faulty variant of CrewProcess: the tasks are not run one after the other.
CrewProcess_concurrent == "concurrent"

\* process=Process.sequential
CrewProcess == "sequential"

\* The place of task t in the list
Place(t) == CHOOSE i \in 1..Len(TaskList) : TaskList[i] = t

\* Crew.kickoff may start task t: under the sequential process the tasks
\* before it in the list are done and none is running.
CanStart(t) ==
    /\ run_state = "running"
    /\ task_status[t] = "pending"
    /\ CrewProcess = "sequential" =>
          /\ \A s \in Tasks : Place(s) < Place(t) => task_status[s] = "done"
          /\ \A s \in Tasks : task_status[s] # "running"

\* The requirement is handed over: run creates agents, tasks and crew and
\* calls crew.kickoff().
Kickoff ==
    /\ run_state = "idle"
    /\ run_state' = "running"
    /\ UNCHANGED <<task_status, task_output, task_context, run_result, routerVars, sysVars>>

\* Task t starts, with the outputs of the tasks of its context that have one
StartTask(t) ==
    /\ CanStart(t)
    /\ task_status' = [task_status EXCEPT ![t] = "running"]
    /\ task_context' = [task_context EXCEPT ![t] =
                            {s \in TaskContext(t) : task_output[s] # "none"}]
    /\ UNCHANGED <<run_state, task_output, run_result, routerVars, sysVars>>

\* Task t ends with a result, or with the note that nothing had to be done
FinishTask(t, output) ==
    /\ run_state = "running"
    /\ task_status[t] = "running"
    /\ task_status' = [task_status EXCEPT ![t] = "done"]
    /\ task_output' = [task_output EXCEPT ![t] = output]
    /\ UNCHANGED <<run_state, task_context, run_result, routerVars, sysVars>>

\* What the caller of run gets when task t raises: run has no handler
\* around crew.kickoff() and main has none around crew.run(), so the
\* exception is all the caller gets; `outputs` are the outputs so far.
RunRaised(t, outputs) == [kind |-> "exception", task |-> t]

\* What the caller of run gets when kickoff returns: its result, which holds
\* the output of every task in list order
RunReturned(outputs) ==
    [kind |-> "result", results |-> [i \in 1..Len(TaskList) |-> outputs[TaskList[i]]]]

\* Task t raises: kickoff, and with it run, raises
FailTask(t) ==
    /\ run_state = "running"
    /\ task_status[t] = "running"
    /\ task_status' = [task_status EXCEPT ![t] = "failed"]
    /\ run_state' = "raised"
    /\ run_result' = RunRaised(t, task_output)
    /\ UNCHANGED <<task_output, task_context, routerVars, sysVars>>

\* Every task is done: kickoff returns and run returns its result
Return ==
    /\ run_state = "running"
    /\ \A t \in Tasks : task_status[t] = "done"
    /\ run_state' = "returned"
    /\ run_result' = RunReturned(task_output)
    /\ UNCHANGED <<task_status, task_output, task_context, routerVars, sysVars>>

PipelineInit == RouterIdle /\ SysIdle /\ PipeIdle

PipelineNext ==
    \/ Kickoff
    \/ \E t \in Tasks : StartTask(t)
    \/ \E t \in Tasks, output \in {"result", "not_applicable"} : FinishTask(t, output)
    \/ \E t \in Tasks : FailTask(t)
    \/ Return

PipelineSpec == PipelineInit /\ [][PipelineNext]_vars

-----------------------------------------------------------------------------
(* What the router claims speak of, stated on the raw payload *)

\* The label names of a payload, lower-cased, as a set
NameSet(issue) ==
    {Lower(PayloadLabels(issue).items[i].name) :
        i \in 1..Len(PayloadLabels(issue).items)}

\* The tokens of the title, lower-cased, as a set
TokenSet(issue) ==
    {Lower(PayloadTitle(issue)[i]) : i \in 1..Len(PayloadTitle(issue))}

AiGenerated(issue) == "ai-generated" \in NameSet(issue)

Terminal(issue) == Lower(PayloadState(issue)) \in {"guihuawancheng", "planned", "done"}

\* The title starts with "[AI]" in some letter case
AiTitle(issue) ==
    Len(PayloadTitle(issue)) >= 1 /\ Lower(PayloadTitle(issue)[1]) = "[ai]"

DecomposeSignal(issue) ==
    AiTitle(issue) \/ "ai-plan" \in NameSet(issue) \/ "ai-planning" \in NameSet(issue)

\* The domain markers of each type, in titles and in labels
TitleMarkers(type) ==
    CASE type = "frontend" -> {"[qianduan]", "[frontend]"}
      [] type = "backend"  -> {"[houduan]", "[backend]"}
      [] type = "database" -> {"[shujuku]", "[database]"}
      [] type = "review"   -> {"[shencha]", "[review]"}

LabelMarkers(type) ==
    CASE type = "frontend" -> {"qianduan", "frontend"}
      [] type = "backend"  -> {"houduan", "backend"}
      [] type = "database" -> {"shujuku", "database", "db"}
      [] type = "review"   -> {"shencha", "review"}

Priority == <<"frontend", "backend", "database", "review">>

\* Type `type` has a marker in the title or in the labels
HasMarker(issue, type) ==
    \/ \E i \in 1..Len(issue.title) : Lower(issue.title[i]) \in TitleMarkers(type)
    \/ \E i \in 1..Len(issue.labels.items) :
            Lower(issue.labels.items[i].name) \in LabelMarkers(type)

\* The types that have a marker
Marked(issue) == {Priority[k] : k \in {j \in 1..Len(Priority) : HasMarker(issue, Priority[j])}}

\* The type of highest priority among the marked ones, "None" when none is
Highest(issue) ==
    LET ks == {k \in 1..Len(Priority) : HasMarker(issue, Priority[k])}
    IN  IF ks = {} THEN "None"
        ELSE Priority[CHOOSE k \in ks : \A j \in ks : k <= j]

-----------------------------------------------------------------------------
(* Claims on the router, under RouterSpec *)

\* C1: an item whose labels contain "ai-generated", in any letter case, is
\* never routed to "pm_mode", whatever its title, other labels and state.
C1_LoopBreaker ==
    (decision # "unset" /\ AiGenerated(issue_data)) => decision # "pm_mode"

\* C1 witness: an "ai-generated" item that also carries the "[AI]" prefix and
\* a planning label has been routed.
C1_Witness ==
    /\ decision # "unset"
    /\ In("AI-Generated", [i \in 1..Len(issue_data.labels.items) |->
                              issue_data.labels.items[i].name])
    /\ AiTitle(issue_data)
    /\ "ai-plan" \in NameSet(issue_data)

\* C2 as stated: every item in a terminal state is skipped, whatever its
\* title and labels.
C2_TerminalAlwaysSkipped ==
    (decision # "unset" /\ Terminal(issue_data)) => decision = "None"

\* C2 as amended: every item in a terminal state that is not labelled
\* "ai-generated" is skipped, whatever its title and other labels.
C2_TerminalSkipped ==
    (decision # "unset" /\ Terminal(issue_data) /\ ~AiGenerated(issue_data))
        => decision = "None"

\* C2 witness: a "Done" item with the "[AI]" prefix and a domain label has
\* been skipped.
C2_Witness ==
    /\ decision = "None"
    /\ issue_data.state = "Done"
    /\ AiTitle(issue_data)
    /\ "qianduan" \in NameSet(issue_data)

\* C3: an item labelled "ai-generated" gets the answer of the execution-type
\* resolver: a marked type when a domain marker is present, "None" when none
\* is, whatever its state and its decompose signals.
C3_AiGeneratedDelegates ==
    (decision # "unset" /\ AiGenerated(issue_data)) =>
        LET types == Marked(issue_data)
        IN  /\ types = {} => decision = "None"
            /\ types # {} => (decision \in types /\ decision = Highest(issue_data))

\* C3 witness: an "ai-generated" item in state "Done" with the "[AI]" prefix
\* has been routed to an execution type.
C3_Witness ==
    /\ decision = "backend"
    /\ AiGenerated(issue_data)
    /\ issue_data.state = "Done"
    /\ AiTitle(issue_data)

\* C4: an item that is neither "ai-generated" nor terminal and has a
\* decompose signal is routed to "pm_mode", domain markers or not.
C4_Decompose ==
    (/\ decision # "unset"
     /\ ~AiGenerated(issue_data)
     /\ ~Terminal(issue_data)
     /\ DecomposeSignal(issue_data)) => decision = "pm_mode"

\* C4 witness: an item with a planning label and a domain marker in both
\* title and labels has been routed to "pm_mode".
C4_Witness ==
    /\ decision = "pm_mode"
    /\ ~AiTitle(issue_data)
    /\ "ai-planning" \in NameSet(issue_data)
    /\ "[frontend]" \in TokenSet(issue_data)
    /\ "db" \in NameSet(issue_data)

\* C5: the resolver answers the type of highest priority (frontend, backend,
\* database, review) among those marked in the title or the labels, whatever
\* the order of the labels, and "None" when no type is marked.
C5_Priority ==
    exec_type # "unset" => exec_type = Highest(issue_data)

\* C5 witness: the labels name backend first and frontend second, and the
\* resolver has answered frontend.
C5_Witness ==
    /\ exec_type = "frontend"
    /\ Len(issue_data.labels.items) = 2
    /\ issue_data.labels.items[1].name = "Backend"
    /\ issue_data.labels.items[2].name = "qianduan"

\* The payload of the router with `items` as the elements of its labels
WithItems(items) == [issue_data EXCEPT !.labels.items = items]

\* The names of the labels of the payload of the router, as they are written
Names == [i \in 1..Len(issue_data.labels.items) |-> issue_data.labels.items[i].name]

\* C16: the decision does not depend on the shape the labels come in
\* ({nodes: [{name}]}, [{name}] or [name]) nor on the letter case of their
\* names.
C16_ShapeAgnostic ==
    decision # "unset" =>
        \A sh \in LabelShapes :
            /\ route([issue_data EXCEPT !.labels = Labels(sh, Names)]) = decision
            /\ route([issue_data EXCEPT !.labels =
                        Labels(sh, [i \in 1..Len(Names) |-> Lower(Names[i])])]) = decision

\* C16 witness: labels given as strings in mixed case have led to an
\* execution type.
C16_Witness ==
    /\ decision = "backend"
    /\ issue_data.labels.shape = "list"
    /\ Len(Names) = 2
    /\ issue_data.labels.items[1].kind = "str"
    /\ Names = <<"AI-Generated", "Backend">>

\* A list backwards, and a list with its first element moved to the end
Reverse(seq) == [i \in 1..Len(seq) |-> seq[Len(seq) + 1 - i]]
Rotate(seq) == IF seq = <<>> THEN seq ELSE Append(Tail(seq), Head(seq))

\* Fields of a payload that route has no business with
OtherFields ==
    {[id |-> 1, identifier |-> "ENG-1", description |-> <<"fix">>],
     [id |-> 2, identifier |-> "ENG-2", description |-> <<"[AI]", "[frontend]">>]}

\* C17: the decision depends on title, labels and state only: it is the
\* same for the labels in another order or repeated, and with any id,
\* identifier and description.
C17_OnlyTitleLabelsState ==
    decision # "unset" =>
        LET items == issue_data.labels.items
        IN  /\ route(WithItems(Reverse(items))) = decision
            /\ route(WithItems(Rotate(items))) = decision
            /\ route(WithItems(items \o items)) = decision
            /\ \A other \in OtherFields : route(other @@ issue_data) = decision

\* C17 witness: the labels name database before backend, and the item was
\* routed to backend.
C17_Witness ==
    /\ decision = "backend"
    /\ Names = <<"db", "Backend">>

\* C29: the default rule: an item with no "ai-generated" label, no signal to
\* decompose ("[AI]" title prefix, "ai-plan", "ai-planning") and no domain
\* marker in its title or labels is skipped, whatever its state.
C29_DefaultSkip ==
    decision # "unset" =>
        ((~AiGenerated(issue_data) /\ ~DecomposeSignal(issue_data) /\ Marked(issue_data) = {})
            => decision = "None")

\* C29 witness: an item in state "Todo" titled "fix [AI]" and labelled "bug"
\* was skipped.
C29_Witness ==
    /\ decision = "None"
    /\ issue_data.title = <<"fix", "[AI]">>
    /\ issue_data.state = "Todo"
    /\ NameSet(issue_data) = {"bug"}

-----------------------------------------------------------------------------
(* Claims on the router, under PayloadSpec *)

\* C18: route is total: for every payload, fields absent, null or empty
\* included, it answers "pm_mode", an execution type or "None", and does not
\* raise.
C18_Total ==
    decision # "unset" =>
        decision \in {"pm_mode", "frontend", "backend", "database", "review", "None"}

-----------------------------------------------------------------------------
(* Claims on the server, under Spec *)

\* The last request was an Issue create or update event that the server
\* took in: processing enabled, signature accepted.
IssueEventTaken ==
    /\ response.endpoint = "linear"
    /\ ~disabled
    /\ verify_signature(response.request.signature_ok)
    /\ response.request.type = "Issue"
    /\ response.request.action \in {"create", "update"}

\* C6: for every Issue create/update event taken in, the answer is
\* "accepted" with a background unit started exactly when route gives a
\* workflow for the item, and "skipped" with none started exactly when route
\* gives "None".
C6_AnswerFollowsRoute ==
    IssueEventTaken =>
        LET routed == route(response.request.data)
        IN  /\ (response.status = "accepted" /\ response.unit # 0) <=> routed # "None"
            /\ (response.status = "skipped" /\ response.unit = 0) <=> routed = "None"

\* The labels of type `type` that mark a sub-issue
HasDomainLabel(labels) ==
    \E type \in {"frontend", "backend", "database", "review"} :
        \E i \in 1..Len(labels) : Lower(labels[i]) \in LabelMarkers(type)

\* C7: every sub-issue created during a PM run carries the "ai-generated"
\* label together with its domain marker.
C7_SubIssuesLabelled ==
    \A i \in DOMAIN tracker :
        tracker[i].origin = "created" =>
            /\ \E k \in 1..Len(tracker[i].labels) :
                    Lower(tracker[i].labels[k]) = "ai-generated"
            /\ HasDomainLabel(tracker[i].labels)

\* A unit whose event was sent after a workflow had moved the issue to its
\* terminal state, and carries that state
Redelivered(u) == units[u].after # "none" /\ Terminal(units[u].issue)

\* A unit that has invoked no capability and issued no status write
NoOp(u) == units[u].calls = 0 /\ units[u].writes = <<>> /\ units[u].created = 0

\* C8 as stated: once a workflow has moved an item to its terminal state,
\* every later event for it with the updated state is a no-op.
C8_ReentryIsNoOp ==
    \A u \in DOMAIN units : Redelivered(u) => NoOp(u)

\* C8 as amended: the same for every item that is not labelled
\* "ai-generated".
C8_ReentryIsNoOpUnlessAiGenerated ==
    \A u \in DOMAIN units :
        (Redelivered(u) /\ ~AiGenerated(units[u].issue)) => NoOp(u)

\* C8 witness: an event for an issue the execution workflow had moved to
\* "Done" was accepted, and its unit has ended without doing anything.
C8_Witness ==
    \E u \in DOMAIN units :
        /\ units[u].after = "exec"
        /\ units[u].issue.state = "Done"
        /\ ~AiGenerated(units[u].issue)
        /\ units[u].pc = "done"
        /\ NoOp(u)

\* A unit of the execution workflow whose capability returned and whose
\* status updates are over
ExecUpdated(u) ==
    /\ units[u].workflow_type \in ExecutionTypes
    /\ units[u].capability = "returned"
    /\ units[u].pc = "done"

\* The writes of unit u that name the fallback state
FallbackWrites(u) ==
    {k \in 1..Len(units[u].writes) : units[u].writes[k].status = FallbackStatus}

\* C12: when the update to "Done" is rejected because the team has no such
\* state, the execution workflow attempts the fallback update exactly once,
\* and it attempts none when the update to "Done" was accepted.
C12_FallbackOnRejection ==
    \A u \in DOMAIN units :
        ExecUpdated(u) =>
            /\ units[u].writes[1].status = "Done"
            /\ units[u].writes[1].result = "not_found" =>
                    Cardinality(FallbackWrites(u)) = 1
            /\ units[u].writes[1].result = "updated" => FallbackWrites(u) = {}

\* C13: a failed status write is never fatal: when the capability of a
\* workflow returned, the Outcome is "success" whatever the status updates
\* came to.
C13_WriteFailureNotFatal ==
    \A u \in DOMAIN units :
        (units[u].capability = "returned" /\ units[u].pc = "done") =>
            units[u].outcome = "success"

\* C13 witness: an execution ended with the update to "Done" and the
\* fallback update both failed.
C13_Witness ==
    \E u \in DOMAIN units :
        /\ ExecUpdated(u)
        /\ Len(units[u].writes) = 2
        /\ \A k \in 1..2 : units[u].writes[k].result # "updated"
        /\ units[u].writes[2].status = FallbackStatus
        /\ units[u].outcome = "success"

\* C14: when the capability of the execution workflow raises, run returns
\* the Outcome "error" with the message of the exception and the background
\* unit ends normally.
C14_ExecFailureContained ==
    \A u \in DOMAIN units :
        (units[u].workflow_type \in ExecutionTypes /\ units[u].capability \in Errors) =>
            /\ units[u].pc = "done"
            /\ units[u].outcome = "error"
            /\ units[u].message = units[u].capability

\* C14 witness: an execution whose capability hit the rate limit has ended.
C14_Witness ==
    \E u \in DOMAIN units :
        /\ units[u].workflow_type = "backend"
        /\ units[u].capability = "rate_limit"
        /\ units[u].pc = "done"

\* A unit of the PM workflow whose capability raised
PMFailed(u) ==
    units[u].workflow_type = "pm_mode" /\ units[u].capability \in Errors

\* C15: when the planning capability raises, the PM workflow writes no
\* status for the parent and returns the Outcome "error"; the parent, unless
\* another unit moved it, keeps the state of the event, so that the same
\* event delivered again is routed to "pm_mode" again.
C15_PlanningFailureKeepsState ==
    \A u \in DOMAIN units :
        PMFailed(u) =>
            LET id == PayloadId(units[u].issue)
            IN  /\ units[u].writes = <<>>
                /\ units[u].outcome = "error"
                /\ (id \in DOMAIN tracker /\ tracker[id].moved = "none") =>
                        /\ tracker[id].state = PayloadState(units[u].issue)
                        /\ route(IssuePayload(id)) = "pm_mode"

\* C15 witness: after a failed planning run the event for the same parent,
\* still in its state, was taken again and routed to "pm_mode".
C15_Witness ==
    \E u1, u2 \in DOMAIN units :
        /\ u1 < u2
        /\ PMFailed(u1)
        /\ units[u1].pc = "done"
        /\ units[u2].issue = units[u1].issue
        /\ units[u2].workflow_type = "pm_mode"
        /\ units[u1].source = "linear"
        /\ tracker[units[u1].issue.id].state = units[u1].issue.state

\* C19: with the switch DISABLE_WEBHOOK on, every request to any of the
\* three endpoints is answered "disabled" and no background unit is started.
C19_DisabledAnswersDisabled ==
    disabled =>
        /\ units = <<>>
        /\ response.endpoint # "none" =>
                (response.status = "disabled" /\ response.unit = 0)

\* C19 witness: with the switch on, a comment that mentions the AI came in
\* at the GitHub endpoint and was answered.
C19_Witness ==
    /\ disabled
    /\ response.endpoint = "github"
    /\ response.request.event = "issue_comment"
    /\ response.request.mentions
    /\ response.status = "disabled"

\* The Issue event Linear's webhook would carry for an item titled `title`
\* with no labels, not yet worked on
EventFor(title) ==
    [id |-> 0, title |-> title, labels |-> Labels(WebhookShape, <<>>), state |-> "Todo"]

\* The workflow linear_webhook and process_task come to run for an event:
\* none when the event is answered "skipped", else what route says
WebhookWorkflow(issue) == IF should_process(issue) THEN route(issue) ELSE "None"

\* C20: a manual trigger with requirement r is handled as a webhook Issue
\* event with title r and no labels: the same decision and the same workflow
\* run, or none for both.
C20_TriggerAsWebhook ==
    \A u \in DOMAIN units :
        (units[u].source = "trigger" /\ units[u].workflow_type # "unset") =>
            /\ units[u].issue.title = units[u].issue.description
            /\ units[u].workflow_type = WebhookWorkflow(EventFor(units[u].issue.title))

\* Answer r is to a Linear webhook request whose signature is invalid, in a
\* deployment with a secret set and processing enabled
InvalidSignatureRequest(r) ==
    /\ r.endpoint = "linear"
    /\ ~disabled
    /\ secret
    /\ ~r.request.signature_ok

\* C21: a Linear webhook request with an invalid signature, with a secret
\* set and processing enabled, is answered "unauthorized"; no background unit
\* is started for it, so its payload is never classified.
C21_InvalidSignatureRejected ==
    [][(response' # response /\ InvalidSignatureRequest(response')) =>
            /\ response'.status = "unauthorized"
            /\ response'.unit = 0
            /\ units' = units]_vars

\* C21 witness: an Issue create event that the pre-filter lets through and
\* route sends to the backend execution came with an invalid signature and
\* was answered "unauthorized".
C21_Witness ==
    /\ InvalidSignatureRequest(response)
    /\ response.request.type = "Issue"
    /\ response.request.action = "create"
    /\ should_process(response.request.data)
    /\ route(response.request.data) = "backend"
    /\ response.status = "unauthorized"

\* A unit whose capability raised the rate-limit error
RateLimited(u) == units[u].capability = "rate_limit"

SameItemRace(u, v) ==
    /\ u # v
    /\ units[u].issue = units[v].issue
    /\ units[u].source = "linear"
    /\ ~Terminal(units[u].issue)
    /\ units[u].after = "none"
    /\ units[v].after = "none"

\* The write of "Done" by unit u
DoneWrite(u) ==
    [id |-> PayloadId(units[u].issue), status |-> "Done", result |-> "updated"]

\* C23: there is no mutual exclusion per item.  A unit is routed by the
\* payload of its event alone, whatever the item's state has become and
\* whatever other units do; a started unit can always be routed, and a unit
\* whose capability has returned can always go on to write "Done", also
\* while another unit for the same item is inside the workflow or has
\* written already.
C23_NoMutualExclusion ==
    \A u \in DOMAIN units :
        /\ units[u].workflow_type # "unset" =>
                units[u].workflow_type = route(units[u].issue)
        /\ units[u].pc = "start" => ENABLED TaskRoute(u)
        /\ units[u].pc = "exec_run" => ENABLED ExecReturn(u)
        /\ units[u].pc = "exec_update" =>
                ENABLED (/\ ExecUpdateStatus(u, "api_ok", "api_ok")
                         /\ units'[u].writes[1].id = PayloadId(units[u].issue)
                         /\ units'[u].writes[1].status = "Done")

\* C23 witness: two units for the same item, started with the same state
\* "Todo", are inside the execution workflow at the same time; each has
\* invoked the capability, which has returned, and each is about to write
\* "Done" for a team that has this state.
C23_Witness ==
    \E u, v \in DOMAIN units :
        /\ SameItemRace(u, v)
        /\ PayloadState(units[u].issue) = "Todo"
        /\ units[u].calls = 1
        /\ units[v].calls = 1
        /\ units[u].pc = "exec_update"
        /\ units[v].pc = "exec_update"
        /\ "Done" \in team_states

\* The status names of the writes of unit u
WrittenStatuses(u) == {units[u].writes[k].status : k \in 1..Len(units[u].writes)}

\* C25: process_task hands each decision to the matching workflow and to no
\* other: "pm_mode" runs the PM workflow alone, an execution type runs the
\* execution workflow alone, with the very type route returned, "None" runs
\* nothing, and no unit runs more than one workflow.
C25_DecisionToMatchingWorkflow ==
    \A u \in DOMAIN units :
        LET routed == route(units[u].issue)
        IN  IF units[u].workflow_type = "unset" THEN units[u].ran = <<>>
            ELSE /\ units[u].workflow_type = routed
                 /\ Len(units[u].ran) <= 1
                 /\ routed = "pm_mode" =>
                        /\ units[u].ran = <<PMRun>>
                        /\ WrittenStatuses(u) \subseteq {"guihuawancheng"}
                 /\ routed \in ExecutionTypes =>
                        /\ units[u].ran = <<ExecRun(routed)>>
                        /\ units[u].created = 0
                        /\ WrittenStatuses(u) \subseteq {"Done", FallbackStatus}
                 /\ routed \notin ExecutionTypes \cup {"pm_mode"} => units[u].ran = <<>>

\* C25 witness: of two manual triggers one was routed to "pm_mode" and has
\* run the PM workflow, the other was routed to "frontend" and has run the
\* execution workflow as a frontend task.
C25_Witness ==
    \E u, v \in DOMAIN units :
        /\ units[u].workflow_type = "pm_mode"
        /\ units[u].ran = <<PMRun>>
        /\ units[u].pc = "done"
        /\ units[v].workflow_type = "frontend"
        /\ units[v].ran = <<ExecRun("frontend")>>
        /\ units[v].pc = "done"

\* A unit of the execution workflow
InExecution(u) == units[u].workflow_type \in ExecutionTypes

\* C26: in the execution workflow a status write is issued only after the
\* capability has returned: a unit whose capability failed, or has not
\* returned yet, has issued no update to "Done" or "yiwancheng", and an
\* issue is moved by the execution workflow only through a unit whose
\* capability returned.
C26_WriteOnlyAfterSuccess ==
    /\ \A u \in DOMAIN units :
            (InExecution(u) /\ units[u].capability # "returned") =>
                units[u].writes = <<>>
    /\ \A i \in DOMAIN tracker :
            tracker[i].moved = "exec" =>
                \E u \in DOMAIN units :
                    /\ InExecution(u)
                    /\ PayloadId(units[u].issue) = i
                    /\ units[u].capability = "returned"
                    /\ \E k \in 1..Len(units[u].writes) :
                            units[u].writes[k].result = "updated"

\* C26 witness: the capability of an execution failed; the unit has ended
\* with no write, and the issue is in the state of the event, moved by none.
C26_Witness ==
    \E u \in DOMAIN units :
        /\ InExecution(u)
        /\ units[u].capability = "other"
        /\ units[u].pc = "done"
        /\ units[u].writes = <<>>
        /\ units[u].source = "linear"
        /\ tracker[PayloadId(units[u].issue)].state = PayloadState(units[u].issue)
        /\ tracker[PayloadId(units[u].issue)].moved = "none"

\* A unit of the PM workflow
InPlanning(u) == units[u].workflow_type = "pm_mode"

\* C27: in the PM workflow the parent is moved to "guihuawancheng" only
\* after the planning capability has returned: a unit whose capability has
\* failed or not returned has issued no write, a run that went through has
\* attempted the update of the parent exactly once, and no sub-issue is
\* created by a unit that has attempted it.
C27_PlannedAfterCapability ==
    /\ [](\A u \in DOMAIN units :
            InPlanning(u) =>
                /\ units[u].capability # "returned" => units[u].writes = <<>>
                /\ (units[u].capability = "returned" /\ units[u].pc = "done") =>
                        /\ Len(units[u].writes) = 1
                        /\ units[u].writes[1].id = PayloadId(units[u].issue)
                        /\ units[u].writes[1].status = "guihuawancheng"
                        /\ units[u].outcome = "success")
    /\ [][\A u \in DOMAIN units :
            (InPlanning(u) /\ units[u].pc \in {"pm_update", "done"}) =>
                units'[u].created = units[u].created]_vars

\* C27 witness: a PM run has created a sub-issue, its capability has
\* returned, and its one update has moved the parent to "guihuawancheng".
C27_Witness ==
    \E u \in DOMAIN units :
        /\ InPlanning(u)
        /\ units[u].capability = "returned"
        /\ units[u].pc = "done"
        /\ units[u].created = 1
        /\ Len(units[u].writes) = 1
        /\ units[u].writes[1].result = "updated"
        /\ tracker[PayloadId(units[u].issue)].state = "guihuawancheng"
        /\ \E i \in DOMAIN tracker : tracker[i].origin = "created"

\* A unit that has started and not ended
AtWork(u) == units[u].pc \notin {"start", "done"}

\* Whatever the units are doing, a request that the endpoint takes in is
\* answered "accepted" as long as the server can start a unit.
NeverBlocked ==
    (~disabled /\ Len(units) < MaxUnits) =>
        /\ "linear" \in traffic =>
                \A i \in DOMAIN tracker :
                    should_process(IssuePayload(i)) =>
                        ENABLED (/\ linear_webhook(i, [type |-> "Issue", action |-> "create"], TRUE)
                                 /\ response'.status = "accepted")
        /\ "github" \in traffic =>
                \A title \in GithubTitles :
                    ENABLED (/\ github_webhook("issue_comment", TRUE, title)
                             /\ response'.status = "accepted")
        /\ "trigger" \in traffic =>
                \A requirement \in Requirements \ {<<>>} :
                    ENABLED (/\ manual_trigger(requirement)
                             /\ response'.status = "accepted")

\* C28: fire and forget.  The answer "accepted" is given at the step that
\* starts the unit, before the unit has done anything; no step of a unit
\* changes the answer, so that it is the same whether the workflow later
\* succeeds, fails or is skipped; and a unit at work never keeps the server
\* from accepting a further event.
C28_FireAndForget ==
    /\ []NeverBlocked
    /\ [][/\ (response' # response /\ response'.status = "accepted") =>
                /\ Len(units') = Len(units) + 1
                /\ response'.unit = Len(units')
                /\ units'[response'.unit].pc = "start"
                /\ \A u \in DOMAIN units : units'[u] = units[u]
          /\ (\E u \in DOMAIN units : units'[u] # units[u]) =>
                response' = response]_vars

\* C28 witness: with one unit at work inside the execution workflow, a
\* further event was accepted, and the unit started for it has not yet taken
\* a step.
C28_Witness ==
    /\ response.endpoint # "none"
    /\ response.status = "accepted"
    /\ response.unit = 2
    /\ units[2].pc = "start"
    /\ AtWork(1)
    /\ units[1].pc = "exec_run"

\* A unit for which route answered "None"
Skipped(u) == units[u].workflow_type = "None"

\* C30: a skip has no side effect: a unit for which route answered "None"
\* has ended as skipped, having invoked no capability, created no sub-issue
\* and issued no status write; the step in which it is routed leaves the
\* issues as they are, and it takes no step after it.
C30_SkipHasNoEffect ==
    /\ [](\A u \in DOMAIN units :
            Skipped(u) =>
                /\ NoOp(u)
                /\ units[u].ran = <<>>
                /\ units[u].capability = "none"
                /\ units[u].pc = "done"
                /\ units[u].outcome = "skipped")
    /\ [][\A u \in DOMAIN units :
            /\ (~Skipped(u) /\ Skipped(u)') => tracker' = tracker
            /\ Skipped(u) => units'[u] = units[u]]_vars

\* C30 witness: the event for an issue titled "[AI] fix" in state "Done",
\* which no workflow had moved, was accepted and its unit has ended as
\* skipped, with the issue as it was.
C30_Witness ==
    \E u \in DOMAIN units :
        /\ Skipped(u)
        /\ units[u].pc = "done"
        /\ units[u].after = "none"
        /\ units[u].source = "linear"
        /\ units[u].issue.title = <<"[AI]", "fix">>
        /\ units[u].issue.state = "Done"
        /\ tracker[PayloadId(units[u].issue)].state = "Done"
        /\ tracker[PayloadId(units[u].issue)].moved = "none"
        /\ Len(tracker) = 1

\* C31: the only status names the workflows write are "guihuawancheng", by
\* the PM workflow, and "Done" or "yiwancheng", by the execution workflow;
\* the PM workflow writes no done state, the execution workflow does not
\* write the planned state, a unit that ran no workflow writes nothing, and
\* every write names the id of the item of the unit's event.
C31_WrittenStatuses ==
    \A u \in DOMAIN units :
        /\ \A k \in 1..Len(units[u].writes) :
                /\ units[u].writes[k].id = PayloadId(units[u].issue)
                /\ units[u].writes[k].status \in {"guihuawancheng", "Done", "yiwancheng"}
                /\ units[u].ran = <<PMRun>> <=>
                        units[u].writes[k].status = "guihuawancheng"
                /\ (\E type \in ExecutionTypes : units[u].ran = <<ExecRun(type)>>) <=>
                        units[u].writes[k].status \in {"Done", "yiwancheng"}
        /\ units[u].ran = <<>> => units[u].writes = <<>>

\* C31 witness: an execution for the issue with id 1, whose call to write
\* "Done" raised, has written "yiwancheng" for the same id, and the issue is
\* in that state.
C31_Witness ==
    \E u \in DOMAIN units :
        /\ InExecution(u)
        /\ PayloadId(units[u].issue) = 1
        /\ Len(units[u].writes) = 2
        /\ units[u].writes[1] = [id |-> 1, status |-> "Done", result |-> "raised"]
        /\ units[u].writes[2] = [id |-> 1, status |-> "yiwancheng", result |-> "updated"]
        /\ tracker[1].state = "yiwancheng"

-----------------------------------------------------------------------------
(* Claims on the server, under ReplanSpec *)

\* A unit started for an issue that a PM run created
ForSubIssue(u) ==
    /\ PayloadId(units[u].issue) \in DOMAIN tracker
    /\ tracker[PayloadId(units[u].issue)].origin = "created"

\* C24: no re-planning loop: an event for a sub-issue that a PM run created
\* is never routed to the PM workflow.
C24_NoReplanning ==
    \A u \in DOMAIN units : ForSubIssue(u) => units[u].workflow_type # "pm_mode"

-----------------------------------------------------------------------------
(* Claims on the pipeline, under PipelineSpec *)

\* The stages in their order: plan, database, backend, frontend, review
StageOrder ==
    <<"analyze_task", "database_task", "backend_task", "frontend_task", "review_task">>

\* The stages before stage i
Before(i) == {StageOrder[j] : j \in 1..(i - 1)}

Started(t) == task_status[t] # "pending"

C10_StrictOrder ==
    /\ Cardinality({t \in Tasks : task_status[t] = "running"}) <= 1
    /\ \A i \in 1..(Len(StageOrder) - 1) :
            Started(StageOrder[i + 1]) => task_status[StageOrder[i]] = "done"
    /\ \A i \in 1..Len(StageOrder) :
            task_status[StageOrder[i]] = "failed" =>
                \A j \in (i + 1)..Len(StageOrder) : ~Started(StageOrder[j])

\* C10 witness: the backend stage has failed after plan and database were
\* done, the run has raised, and frontend and review have not started.
C10_Witness ==
    /\ run_state = "raised"
    /\ task_status["analyze_task"] = "done"
    /\ task_status["database_task"] = "done"
    /\ task_status["backend_task"] = "failed"
    /\ ~Started("frontend_task")
    /\ ~Started("review_task")

\* The stages that were attempted, in order
Attempted == SelectSeq(StageOrder, Started)

\* C11: when a stage fails fatally, the caller of the run is handed a report
\* with the results of the stages completed before it and the halt reason, and
\* the reported list has as many entries as stages were attempted.
C11_FailureReportsCompleted ==
    run_state = "raised" =>
        /\ run_result.kind = "report"
        /\ Len(run_result.results) = Len(Attempted)
        /\ \A i \in 1..Len(Attempted) :
                task_status[Attempted[i]] = "done" =>
                    run_result.results[i] = task_output[Attempted[i]]
        /\ run_result.reason = "failed"

\* C32: the pipeline has no forward or cyclic dependency: the declared
\* context of every stage holds only stages that come strictly earlier, in
\* the order plan, database, backend, frontend, review and in the order the
\* tasks are run, and a stage that has started was given the output of every
\* stage of its context, so that it never needs an output not yet produced.
C32_NoForwardDependency ==
    /\ TaskList = StageOrder
    /\ \A i \in 1..Len(StageOrder) :
            LET t == StageOrder[i]
            IN  /\ TaskContext(t) \subseteq Before(i)
                /\ \A s \in TaskContext(t) : Place(s) < Place(t)
                /\ Started(t) =>
                        /\ task_context[t] = TaskContext(t)
                        /\ \A s \in TaskContext(t) : task_output[s] # "none"

\* C32 witness: the run has returned with the five stages done, review
\* having been given the outputs of database, backend and frontend.
C32_Witness ==
    /\ run_state = "returned"
    /\ \A t \in Tasks : task_status[t] = "done"
    /\ task_context["review_task"] = {"database_task", "backend_task", "frontend_task"}
    /\ task_context["database_task"] = {"analyze_task"}

=============================================================================
